---- MODULE Spec2Model ----
(***************************************************************************)
(* Model of the pointer queue library (main.c / main.h): a ring buffer of  *)
(* void* guarded by one pthread mutex and one condition variable.          *)
(*                                                                         *)
(* Every access to head, tail, data and waiting happens with the mutex     *)
(* held, so a thread's call is split at the points where the mutex changes *)
(* hands: lock, critical section, unlock, and for a blocking pop the       *)
(* pthread_cond_wait (release + block, be signalled, re-acquire).          *)
(* pthread_cond_signal unblocks one thread blocked on the condition        *)
(* variable and is lost when none is blocked; pthread_cond_wait returns    *)
(* only after such a signal.                                               *)
(***************************************************************************)
EXTENDS Integers, Sequences, FiniteSets, TLC

\* ---- bounds of the model ----
MaxCap == 2          \* largest count passed to pq_init
MaxObjSize == 1      \* largest obj_size passed to pq_init
MaxVal == 3          \* free clients push the references 1 .. MaxVal, in this order
MaxIter == 7         \* ITERATIONS of the test bench, scaled down

\* ---- program constants ----
NULL == 0
ENOMEM == 12
EINVAL == 22
BufBase == 100       \* address calloc returns for pq->buf

Threads == {"t1", "t2", "t3"}
NoThread == "none"

\* The clients of the queue.  push, pop, wait: the threads that call pq_push,
\* pq_pop, and pq_pop with wait != 0.  script: thread t1 runs main() of the
\* test bench (fill, empty, iterate) instead of arbitrary calls; in
\* "testbench_wait" empty() may also pass wait != 0.  calls: when not 0, each
\* thread makes that many calls and stops.
Clients ==
  { [name |-> "testbench", push |-> {"t1"}, pop |-> {"t1"}, wait |-> {},
     script |-> TRUE, calls |-> 0],
    [name |-> "testbench_wait", push |-> {"t1"}, pop |-> {"t1"}, wait |-> {"t1"},
     script |-> TRUE, calls |-> 0],
    [name |-> "spsc", push |-> {"t1"}, pop |-> {"t2"}, wait |-> {"t2"},
     script |-> FALSE, calls |-> 0],
    [name |-> "nowait", push |-> {"t1", "t3"}, pop |-> {"t2", "t3"}, wait |-> {},
     script |-> FALSE, calls |-> 0],
    [name |-> "mpmc", push |-> {"t1", "t3"}, pop |-> {"t2", "t3"},
     wait |-> {"t2", "t3"}, script |-> FALSE, calls |-> 0] }

\* threads() of the test bench: producer() in t1 makes k calls of pq_push,
\* consumer() in t2 makes k calls of pq_pop(pq, 1)
ThreadsClients ==
  { [name |-> "threads", push |-> {"t1"}, pop |-> {"t2"}, wait |-> {"t2"},
     script |-> FALSE, calls |-> k] : k \in 1 .. MaxCap }

\* one thread using the queue alone, with non-blocking pops; it may pass
\* NULL to pq_push
SingleClient ==
  [name |-> "single", push |-> {"t1"}, pop |-> {"t1"}, wait |-> {},
   script |-> FALSE, calls |-> 0]

VARIABLES
  ini,       \* the call of pq_init in progress: position, arguments, blocks
             \*   allocated and not freed, fields stored so far, result
  sent,      \* per thread: calls of pthread_cond_signal made by its pq_push
             \*   call so far
  left,      \* per thread: calls it still has to make, when the client counts
  obj_size,  \* the obj_size argument pq_init was called with
  pq,        \* struct ptr_queue fields: data, buf, head, tail, capacities, waiting
  mtx,       \* pq->mtx: the thread holding it, or NoThread
  condq,     \* pq->cond: the threads blocked in pthread_cond_wait
  pc,        \* per thread: position in its current call
  wait,      \* per thread: the wait argument of its current pq_pop
  ptr,       \* per thread: the ptr argument of its current pq_push
  rv,        \* per thread: return value of its last call
  errno,     \* per thread: errno (thread local)
  outcome,   \* per thread: which exit path its last call took
  woken,     \* per thread: "sole" / "shared" once signalled, by whether it was
             \*   the only thread blocked on the condition variable; else "no"
  sigval,    \* per thread: reference stored by the push that signalled it
  pushed,    \* references stored by successful pq_push, in order
  popped,    \* values returned by pq_pop through STEP 4, in order
  next_val,  \* next fresh reference of the free clients
  client,    \* the element of Clients in use
  phase,     \* test bench: the function main() is in
  i          \* test bench: the loop counter i of that function

vars == <<ini, sent, left, obj_size, pq, mtx, condq, pc, wait, ptr, rv, errno, outcome, woken, sigval,
          pushed, popped, next_val, client, phase, i>>

\* ---------------------------------------------------------------------
\* Index arithmetic and the critical sections, as functions of the struct
\* ---------------------------------------------------------------------

\* STEP 3 without the wrap-around of the new tail
NewTailNoWrap(q) == q.tail + 1

\* pq_push STEP 3
NewTail(q) ==
  LET new_tail == q.tail + 1
  IN  IF new_tail >= q.array_capacity THEN new_tail - q.array_capacity
                                      ELSE new_tail

\* STEP 5 without the wrap to 0
NewHeadNoWrap(q) == q.head + 1

\* pq_pop STEP 5
NewHead(q) ==
  LET h == q.head + 1
  IN  IF h >= q.array_capacity THEN h - q.array_capacity ELSE h

\* pq_push STEP 4: full test
IsFull(q) == NewTail(q) = q.head

\* STEP 7 never calling pthread_cond_signal
SignalsNever(q) == FALSE

\* STEP 7 calling pthread_cond_signal whatever waiting is
SignalsAlways(q) == TRUE

\* pq_push STEP 7: pthread_cond_signal is called if a consumer is waiting
Signals(q) == q.waiting = 1

\* STEP 4 on a full queue, with the signal of STEP 7
PushFullSignals(q) ==
  [q |-> q, rv |-> 1, err |-> ENOMEM, sig |-> Signals(q), ok |-> FALSE]

\* pq_push STEP 4 on a full queue: errno = ENOMEM, rv stays 1, goto end_unlock
PushFull(q) ==
  [q |-> q, rv |-> 1, err |-> ENOMEM, sig |-> FALSE, ok |-> FALSE]

\* STEPS 3-7 with the store made before the full test
PushCSStoreFirst(q, p) ==
  IF IsFull(q)
    THEN [q |-> [q EXCEPT !.data[q.tail] = p],
          rv |-> 1, err |-> ENOMEM, sig |-> FALSE, ok |-> FALSE]
    ELSE [q |-> [q EXCEPT !.data[q.tail] = p, !.tail = NewTail(q)],
          rv |-> 0, err |-> -1, sig |-> (q.waiting = 1), ok |-> TRUE]

\* pq_push STEPS 3-7, given the mutex is held.  sig: pthread_cond_signal called
PushCS(q, p) ==
  IF IsFull(q)
    THEN PushFull(q)
    ELSE [q |-> [q EXCEPT !.data[q.tail] = p, !.tail = NewTail(q)],
          rv |-> 0, err |-> -1, sig |-> Signals(q), ok |-> TRUE]

\* STEPS 4-5 reading the slot after head instead of the slot at head
PopTakeNext(q) ==
  [q |-> [q EXCEPT !.data[NewHead(q)] = NULL, !.head = NewHead(q)],
   rv |-> q.data[NewHead(q)]]

\* STEPS 4-5 without clearing the slot
PopTakeKeep(q) ==
  [q |-> [q EXCEPT !.head = NewHead(q)], rv |-> q.data[q.head]]

\* pq_pop STEPS 4-5, given the mutex is held
PopTake(q) ==
  [q |-> [q EXCEPT !.data[q.head] = NULL, !.head = NewHead(q)],
   rv |-> q.data[q.head]]

\* STEP 3 with the wrap-around state computed like the normal state
pq_lenNoWrap(q) ==
  IF q.head = q.tail THEN 0
  ELSE IF q.tail > q.head THEN q.tail - q.head
  ELSE q.head - q.tail

\* pq_len STEP 3
pq_len(q) ==
  IF q.head = q.tail THEN 0
  ELSE IF q.tail > q.head THEN q.tail - q.head
  ELSE (q.array_capacity - q.head) + q.tail

\* pq_empty STEP 3
pq_empty(q) == IF q.head = q.tail THEN 1 ELSE 0

\* every object given the address of the first one
ObjAddrFirst(buf, k, size) == buf

\* address of object k of the backing region
ObjAddr(buf, k, size) == buf + k * size

\* the for loop of pq_init STEP 4: pq_push of objects k .. count-1
RECURSIVE InitPool(_, _, _, _)
InitPool(q, k, count, size) ==
  IF k >= count THEN q
  ELSE InitPool(PushCS(q, ObjAddr(q.buf, k, size)).q, k + 1, count, size)

\* pq_init with every allocation succeeding
pq_init(count, size) ==
  LET cap == count + 1
      q0  == [array_capacity |-> cap,
              user_capacity  |-> count,
              data    |-> [k \in 0 .. cap - 1 |-> NULL],
              buf     |-> NULL,
              head    |-> 0,
              tail    |-> 0,
              waiting |-> 0]
  IN  IF size > 0
        THEN InitPool([q0 EXCEPT !.buf = BufBase], 0, count, size)
        ELSE q0

\* the references the pq_push calls of pq_init stored
RECURSIVE LiveFrom(_, _, _)
LiveFrom(q, k, n) ==
  IF n = 0 THEN <<>>
  ELSE <<q.data[k]>> \o LiveFrom(q, (k + 1) % q.array_capacity, n - 1)

\* no thread is inside a call and nothing was pushed by a caller or popped
NoCalls ==
  /\ sent = [t \in Threads |-> 0]
  /\ i = 1
  /\ mtx = NoThread
  /\ condq = {}
  /\ pc = [t \in Threads |-> "idle"]
  /\ wait = [t \in Threads |-> 0]
  /\ ptr = [t \in Threads |-> NULL]
  /\ rv = [t \in Threads |-> 0]
  /\ errno = [t \in Threads |-> 0]
  /\ outcome = [t \in Threads |-> "none"]
  /\ woken = [t \in Threads |-> "no"]
  /\ sigval = [t \in Threads |-> NULL]
  /\ popped = <<>>
  /\ next_val = 1

\* ---------------------------------------------------------------------
\* Initial state: the queue pq_init returned, no thread inside a call
\* ---------------------------------------------------------------------
Init ==
  /\ ini = [pc |-> "returned"]
  /\ obj_size \in 0 .. MaxObjSize
  /\ \E count \in 1 .. MaxCap : pq = pq_init(count, obj_size)
  /\ pushed = LiveFrom(pq, pq.head, pq_len(pq))
  /\ client \in Clients
  /\ phase = IF client.script THEN "fill" ELSE "free"
  /\ left = [t \in Threads |-> 0]
  /\ NoCalls

\* the queue pq_init returned is handed to the two threads of threads()
InitThreads ==
  /\ ini = [pc |-> "returned"]
  /\ obj_size \in 0 .. MaxObjSize
  /\ \E count \in 1 .. MaxCap : pq = pq_init(count, obj_size)
  /\ pushed = LiveFrom(pq, pq.head, pq_len(pq))
  /\ client \in ThreadsClients
  /\ phase = "free"
  /\ left = [t \in Threads |->
               IF t \in client.push \cup client.pop THEN client.calls ELSE 0]
  /\ NoCalls

\* ---------------------------------------------------------------------
\* The callers
\* ---------------------------------------------------------------------

\* thread t is about to call pq_push: fill() and iterate() of the test bench,
\* or a free client with a fresh reference left
MayPush(t) ==
  /\ t \in client.push
  /\ IF client.script
       THEN phase = "fill" \/ (phase = "iterate_push" /\ i < MaxIter)
       ELSE IF client.calls > 0 THEN left[t] > 0
       ELSE next_val <= MaxVal

\* the reference it passes: the loop counter of the test bench, or the next
\* fresh reference
PushArg == IF client.script THEN i ELSE next_val

\* pq_push takes any ptr, NULL too
PushArgs == IF client = SingleClient THEN {NULL, PushArg} ELSE {PushArg}

\* thread t is about to call pq_pop with wait argument w: empty() and
\* iterate() of the test bench (the wait argument of empty() is left open),
\* or a free client
MayPop(t, w) ==
  /\ t \in client.pop
  /\ w # 0 => t \in client.wait
  /\ client.script => (phase = "drain" \/ (phase = "iterate_pop" /\ w = 0))
  /\ client.calls > 0 => (w # 0 /\ left[t] > 0)

\* one call less to make
Called(t) == [left EXCEPT ![t] = IF @ > 0 THEN @ - 1 ELSE @]

\* test bench: where main() goes when pq_push returned r
AfterPush(r) ==
  CASE phase = "fill" ->
         [phase |-> IF r = 0 THEN "fill" ELSE "drain",
          i |-> IF r = 0 THEN i + 1 ELSE 1]
    [] phase = "iterate_push" ->
         [phase |-> IF r = 0 THEN "iterate_pop" ELSE "exit", i |-> i]
    [] OTHER -> [phase |-> phase, i |-> i]

\* test bench: where main() goes when pq_pop returned r
AfterPop(r) ==
  CASE phase = "drain" ->
         [phase |-> IF r # NULL THEN "drain" ELSE "iterate_push",
          i |-> IF r # NULL THEN i + 1 ELSE 1]
    [] phase = "iterate_pop" ->
         [phase |-> IF r # NULL THEN "iterate_push" ELSE "exit",
          i |-> IF r # NULL THEN i + 1 ELSE i]
    [] OTHER -> [phase |-> phase, i |-> i]

\* ---------------------------------------------------------------------
\* pq_push
\* ---------------------------------------------------------------------

\* call + STEP 2: pthread_mutex_lock returns once the mutex is free
PushLock(t) ==
  /\ pc[t] = "idle"
  /\ left' = Called(t)
  /\ MayPush(t)
  /\ mtx = NoThread
  /\ mtx' = t
  /\ pc' = [pc EXCEPT ![t] = "push_cs"]
  /\ \E p \in PushArgs : ptr' = [ptr EXCEPT ![t] = p]
  /\ outcome' = [outcome EXCEPT ![t] = "none"]
  /\ woken' = [woken EXCEPT ![t] = "no"]
  /\ sigval' = [sigval EXCEPT ![t] = NULL]
  /\ UNCHANGED <<ini, sent, obj_size, pq, condq, wait, rv, errno, pushed, popped, next_val,
                 client, phase, i>>

\* STEPS 3-7
PushBody(t) ==
  /\ pc[t] = "push_cs"
  /\ LET r == PushCS(pq, ptr[t])
     IN  /\ pq' = r.q
         /\ rv' = [rv EXCEPT ![t] = r.rv]
         /\ sent' = [sent EXCEPT ![t] = IF r.sig THEN 1 ELSE 0]
         /\ errno' = [errno EXCEPT ![t] = IF r.err >= 0 THEN r.err ELSE @]
         /\ outcome' = [outcome EXCEPT ![t] = IF r.ok THEN "PushOk" ELSE "QueueFull"]
         /\ pushed' = IF r.ok THEN Append(pushed, ptr[t]) ELSE pushed
         /\ next_val' = IF r.ok /\ ~client.script THEN next_val + 1 ELSE next_val
         /\ IF r.sig /\ condq # {}
              THEN \E w \in condq :
                     /\ condq' = condq \ {w}
                     /\ pc' = [pc EXCEPT ![t] = "push_unlock", ![w] = "pop_signaled"]
                     /\ sigval' = [sigval EXCEPT ![w] = ptr[t]]
                     /\ woken' = [woken EXCEPT ![w] =
                                    IF condq = {w} THEN "sole" ELSE "shared"]
              ELSE /\ pc' = [pc EXCEPT ![t] = "push_unlock"]
                   /\ UNCHANGED <<condq, sigval, woken>>
  /\ UNCHANGED <<ini, left, obj_size, mtx, wait, ptr, popped, client, phase, i>>

\* STEP 8, and the return to the caller
PushUnlock(t) ==
  /\ pc[t] = "push_unlock"
  /\ sent' = [sent EXCEPT ![t] = 0]
  /\ mtx' = NoThread
  /\ pc' = [pc EXCEPT ![t] = "idle"]
  /\ ptr' = [ptr EXCEPT ![t] = NULL]
  /\ phase' = AfterPush(rv[t]).phase
  /\ i' = AfterPush(rv[t]).i
  /\ UNCHANGED <<ini, left, obj_size, pq, condq, wait, rv, errno, outcome, woken, sigval, pushed,
                 popped, next_val, client>>

\* ---------------------------------------------------------------------
\* pq_pop
\* ---------------------------------------------------------------------

\* call + STEP 2 with wait != 0: pthread_mutex_lock
PopLock(t) ==
  /\ pc[t] = "idle"
  /\ left' = Called(t)
  /\ MayPop(t, 1)
  /\ mtx = NoThread
  /\ mtx' = t
  /\ wait' = [wait EXCEPT ![t] = 1]
  /\ pc' = [pc EXCEPT ![t] = "pop_cs"]
  /\ outcome' = [outcome EXCEPT ![t] = "none"]
  /\ woken' = [woken EXCEPT ![t] = "no"]
  /\ sigval' = [sigval EXCEPT ![t] = NULL]
  /\ UNCHANGED <<ini, sent, obj_size, pq, condq, ptr, rv, errno, pushed, popped, next_val,
                 client, phase, i>>

\* call + STEP 2 with wait == 0: pthread_mutex_trylock; when it fails the
\* call returns rv == NULL at once
PopTryLock(t) ==
  /\ pc[t] = "idle"
  /\ left' = Called(t)
  /\ MayPop(t, 0)
  /\ woken' = [woken EXCEPT ![t] = "no"]
  /\ sigval' = [sigval EXCEPT ![t] = NULL]
  /\ IF mtx = NoThread
       THEN /\ mtx' = t
            /\ pc' = [pc EXCEPT ![t] = "pop_cs"]
            /\ outcome' = [outcome EXCEPT ![t] = "none"]
            /\ UNCHANGED <<rv, phase, i>>
       ELSE /\ rv' = [rv EXCEPT ![t] = NULL]
            /\ outcome' = [outcome EXCEPT ![t] = "WouldBlock"]
            /\ phase' = AfterPop(NULL).phase
            /\ i' = AfterPop(NULL).i
            /\ UNCHANGED <<mtx, pc>>
  /\ UNCHANGED <<ini, sent, obj_size, pq, condq, wait, ptr, errno, pushed, popped, next_val, client>>

\* STEP 3 on an empty queue with wait == 0: goto unlock with rv == NULL
PopEmpty(t) ==
  /\ pc[t] = "pop_cs"
  /\ pq.head = pq.tail
  /\ wait[t] = 0
  /\ rv' = [rv EXCEPT ![t] = NULL]
  /\ outcome' = [outcome EXCEPT ![t] = "Empty"]
  /\ pc' = [pc EXCEPT ![t] = "pop_unlock"]
  /\ UNCHANGED <<ini, sent, left, obj_size, pq, mtx, condq, wait, ptr, errno, woken, sigval, pushed,
                 popped, next_val, client, phase, i>>

\* STEP 3 on an empty queue with wait != 0: set waiting, pthread_cond_wait
\* releases the mutex and blocks
PopWait(t) ==
  /\ pc[t] = "pop_cs"
  /\ pq.head = pq.tail
  /\ wait[t] # 0
  /\ pq' = [pq EXCEPT !.waiting = 1]
  /\ condq' = condq \cup {t}
  /\ mtx' = NoThread
  /\ pc' = [pc EXCEPT ![t] = "pop_wait"]
  /\ UNCHANGED <<ini, sent, left, obj_size, wait, ptr, rv, errno, outcome, woken, sigval,
                 pushed, popped, next_val, client, phase, i>>

\* pthread_cond_wait re-acquires the mutex after the signal and returns
PopResume(t) ==
  /\ pc[t] = "pop_signaled"
  /\ mtx = NoThread
  /\ mtx' = t
  /\ pc' = [pc EXCEPT ![t] = "pop_resumed"]
  /\ UNCHANGED <<ini, sent, left, obj_size, pq, condq, wait, ptr, rv, errno, outcome, woken, sigval,
                 pushed, popped, next_val, client, phase, i>>

\* STEPS 4-5, reached from STEP 3 with a non-empty queue, or after the wait
\* (which first resets waiting)
PopBody(t) ==
  /\ \/ pc[t] = "pop_cs" /\ pq.head # pq.tail
     \/ pc[t] = "pop_resumed"
  /\ LET q1 == IF pc[t] = "pop_resumed" THEN [pq EXCEPT !.waiting = 0] ELSE pq
         r  == PopTake(q1)
     IN  /\ pq' = r.q
         /\ rv' = [rv EXCEPT ![t] = r.rv]
         /\ popped' = Append(popped, r.rv)
  /\ outcome' = [outcome EXCEPT ![t] = "Popped"]
  /\ pc' = [pc EXCEPT ![t] = "pop_unlock"]
  /\ UNCHANGED <<ini, sent, left, obj_size, mtx, condq, wait, ptr, errno, woken, sigval,
                 pushed, next_val, client, phase, i>>

\* STEP 6, and the return to the caller
PopUnlock(t) ==
  /\ pc[t] = "pop_unlock"
  /\ mtx' = NoThread
  /\ pc' = [pc EXCEPT ![t] = "idle"]
  /\ wait' = [wait EXCEPT ![t] = 0]
  /\ phase' = AfterPop(rv[t]).phase
  /\ i' = AfterPop(rv[t]).i
  /\ UNCHANGED <<ini, sent, left, obj_size, pq, condq, ptr, rv, errno, outcome, woken, sigval, pushed,
                 popped, next_val, client>>

Next ==
  \E t \in Threads :
    \/ PushLock(t)
    \/ PushBody(t)
    \/ PushUnlock(t)
    \/ PopLock(t)
    \/ PopTryLock(t)
    \/ PopEmpty(t)
    \/ PopWait(t)
    \/ PopResume(t)
    \/ PopBody(t)
    \/ PopUnlock(t)

Spec == Init /\ [][Next]_vars

\* pq_init returned the queue to a single thread
InitSingle ==
  /\ ini = [pc |-> "returned"]
  /\ obj_size \in 0 .. MaxObjSize
  /\ \E count \in 1 .. MaxCap : pq = pq_init(count, obj_size)
  /\ pushed = LiveFrom(pq, pq.head, pq_len(pq))
  /\ client = SingleClient
  /\ phase = "free"
  /\ left = [t \in Threads |-> 0]
  /\ NoCalls

\* pq_push and pq_pop(pq, 0) called by that thread
NextSingle ==
  \E t \in Threads :
    \/ PushLock(t)
    \/ PushBody(t)
    \/ PushUnlock(t)
    \/ PopTryLock(t)
    \/ PopEmpty(t)
    \/ PopBody(t)
    \/ PopUnlock(t)

SpecSingle == InitSingle /\ [][NextSingle]_vars

\* the steps of thread t in threads(): pq_push, and pq_pop with wait != 0
ThreadStep(t) ==
  \/ PushLock(t)
  \/ PushBody(t)
  \/ PushUnlock(t)
  \/ PopLock(t)
  \/ PopWait(t)
  \/ PopResume(t)
  \/ PopBody(t)
  \/ PopUnlock(t)

NextThreads == \E t \in Threads : ThreadStep(t)

\* both threads keep being scheduled
SpecThreads ==
  InitThreads /\ [][NextThreads]_vars /\ \A t \in Threads : WF_vars(ThreadStep(t))


\* ---------------------------------------------------------------------
\* pq_init, statement by statement.  size_t and __u32 values are kept as
\* little-endian sequences of 16-bit limbs (4 limbs and 2 limbs), so that
\* the stores into the 32-bit fields truncate as they do in C.
\* ---------------------------------------------------------------------
Limb == 256 * 256

\* v + 1 modulo the width of v
RECURSIVE IncLimbs(_)
IncLimbs(v) ==
  IF v = <<>> THEN <<>>
  ELSE IF v[1] + 1 < Limb THEN <<v[1] + 1>> \o Tail(v)
  ELSE <<0>> \o IncLimbs(Tail(v))

\* v - 1 modulo the width of v
RECURSIVE DecLimbs(_)
DecLimbs(v) ==
  IF v = <<>> THEN <<>>
  ELSE IF v[1] > 0 THEN <<v[1] - 1>> \o Tail(v)
  ELSE <<Limb - 1>> \o DecLimbs(Tail(v))

\* a < b for values of the same width
RECURSIVE LtLimbs(_, _)
LtLimbs(a, b) ==
  IF a = <<>> THEN FALSE
  ELSE LET n == Len(a)
       IN  \/ a[n] < b[n]
           \/ a[n] = b[n] /\ LtLimbs(SubSeq(a, 1, n - 1), SubSeq(b, 1, n - 1))

IsZero(v) == \A k \in 1 .. Len(v) : v[k] = 0

\* the store of a size_t (or of the size_t sum count + 1) into a __u32 field
\* keeps the low 32 bits
ToU32(v) == SubSeq(v, 1, 2)

\* a __u32 converted to size_t
ToSizeT(u) == u \o <<0, 0>>

\* a small number as a size_t
SizeT(n) == <<n, 0, 0, 0>>

\* the count arguments tried: 0 .. MaxCap, and the values around 2^31 and 2^32
CountInputs ==
  {SizeT(n) : n \in 0 .. MaxCap} \cup
  { <<Limb - 1, (Limb \div 2) - 1, 0, 0>>,
    <<0, Limb \div 2, 0, 0>>,
    <<Limb - 2, Limb - 1, 0, 0>>,
    <<Limb - 1, Limb - 1, 0, 0>>,
    <<0, 0, 1, 0>>,
    <<1, 0, 1, 0>> }

\* the struct as calloc returns it
ZeroQueue ==
  [array_capacity |-> 0, user_capacity |-> 0, data |-> <<>>, buf |-> NULL,
   head |-> 0, tail |-> 0, waiting |-> 0]

\* the loop of STEP 4 on the empty queue: pq_push succeeds until the queue is
\* full, that is for the first array_capacity - 1 of the count objects
FillTail(count, array_capacity) ==
  IF LtLimbs(count, ToSizeT(array_capacity))
    THEN ToU32(count)
    ELSE DecLimbs(array_capacity)

\* pq_len STEP 3 on 32-bit fields, for head == 0 as pq_init leaves it; the
\* result is the bit pattern of the __s32 returned
pq_len32(head, tail, array_capacity) ==
  IF head = tail THEN <<0, 0>> ELSE tail

\* the sign of a __s32
IsNegative(u) == u[2] >= Limb \div 2

\* the caller is about to call pq_init(count, size)
InitCtor ==
  /\ \E count \in CountInputs, size \in 0 .. MaxObjSize :
       /\ obj_size = size
       /\ ini = [pc |-> "call", count |-> count, size |-> size, heap |-> {},
                 failed |-> "none", ret |-> "NULL", err |-> 0,
                 array_capacity |-> <<0, 0>>, user_capacity |-> <<0, 0>>,
                 head |-> <<0, 0>>, tail |-> <<0, 0>>, mtx_init |-> FALSE]
  /\ pq = ZeroQueue
  /\ pushed = <<>>
  /\ client \in {c \in Clients : c.name = "testbench"}
  /\ phase = "pq_init"
  /\ left = [t \in Threads |-> 0]
  /\ NoCalls

\* pq_init has not returned: no caller has the queue yet
CtorFrame ==
  UNCHANGED <<sent, left, obj_size, pq, mtx, condq, pc, wait, ptr, rv, errno, outcome,
              woken, sigval, pushed, popped, next_val, client, phase, i>>

\* STEP 1
CtorValidate ==
  /\ ini.pc = "call"
  /\ CtorFrame
  /\ ini' = IF IsZero(ini.count)
              THEN [ini EXCEPT !.err = EINVAL, !.pc = "ret"]
              ELSE [ini EXCEPT !.pc = "alloc_pq"]

\* STEP 2: calloc of the struct, and the stores of the two capacities
CtorAllocPq ==
  /\ ini.pc = "alloc_pq"
  /\ CtorFrame
  /\ \E ok \in BOOLEAN :
       ini' = IF ok
                THEN [ini EXCEPT !.heap = @ \cup {"pq"},
                                 !.ret = "pq",
                                 !.array_capacity = ToU32(IncLimbs(ini.count)),
                                 !.user_capacity = ToU32(ini.count),
                                 !.pc = "alloc_data"]
                ELSE [ini EXCEPT !.failed = "pq", !.err = ENOMEM, !.pc = "ret"]

\* STEP 3: calloc of the slot array; on failure the struct is freed
CtorAllocData ==
  /\ ini.pc = "alloc_data"
  /\ CtorFrame
  /\ \E ok \in BOOLEAN :
       ini' = IF ok
                THEN [ini EXCEPT !.heap = @ \cup {"data"},
                                 !.pc = IF ini.size > 0 THEN "alloc_buf"
                                                        ELSE "mutex_init"]
                ELSE [ini EXCEPT !.failed = "data", !.err = ENOMEM,
                                 !.heap = @ \ {"pq"}, !.ret = "NULL",
                                 !.pc = "ret"]

\* STEP 4: calloc of the objects; on failure goto end with pq still set
CtorAllocBuf ==
  /\ ini.pc = "alloc_buf"
  /\ CtorFrame
  /\ \E ok \in BOOLEAN :
       ini' = IF ok
                THEN [ini EXCEPT !.heap = @ \cup {"buf"}, !.pc = "fill"]
                ELSE [ini EXCEPT !.failed = "buf", !.err = ENOMEM, !.pc = "ret"]

\* STEP 4: the loop of pq_push.  With array_capacity == 0 the first push
\* stores outside the zero-length slot array: undefined behaviour
CtorFill ==
  /\ ini.pc = "fill"
  /\ CtorFrame
  /\ ini' = IF IsZero(ini.array_capacity)
              THEN [ini EXCEPT !.pc = "undefined"]
              ELSE [ini EXCEPT !.tail = FillTail(ini.count, ini.array_capacity),
                               !.pc = "mutex_init"]

\* STEP 4 (second): pthread_mutex_init, pthread_cond_init
CtorMutexInit ==
  /\ ini.pc = "mutex_init"
  /\ CtorFrame
  /\ ini' = [ini EXCEPT !.mtx_init = TRUE, !.pc = "ret"]

NextCtor ==
  \/ CtorValidate
  \/ CtorAllocPq
  \/ CtorAllocData
  \/ CtorAllocBuf
  \/ CtorFill
  \/ CtorMutexInit

SpecCtor == InitCtor /\ [][NextCtor]_vars

TypeOK ==
  /\ pq.head \in Nat
  /\ pq.tail \in Nat
  /\ mtx \in Threads \cup {NoThread}
  /\ condq \subseteq Threads
\* ---------------------------------------------------------------------
\* Properties
\* ---------------------------------------------------------------------

Range(s) == {s[k] : k \in 1 .. Len(s)}

IsPrefix(s, u) == Len(s) <= Len(u) /\ s = SubSeq(u, 1, Len(s))

\* number of entries of s that are references (not NULL)
RECURSIVE NumElems(_)
NumElems(s) ==
  IF s = <<>> THEN 0
  ELSE (IF Head(s) # NULL THEN 1 ELSE 0) + NumElems(Tail(s))

\* C1: on a queue made by pq_init(N, 0), as long as no pop has removed
\* anything, a pq_push returns 0 while fewer than N pushes have succeeded
\* and otherwise returns 1 with errno ENOMEM: exactly N pushes succeed.
C1_ExactlyNPushes ==
  (obj_size = 0 /\ popped = <<>>) =>
    /\ Len(pushed) <= pq.user_capacity
    /\ \A t \in Threads :
         /\ outcome[t] = "PushOk" => rv[t] = 0
         /\ outcome[t] = "QueueFull" =>
              /\ rv[t] = 1
              /\ errno[t] = ENOMEM
              /\ Len(pushed) = pq.user_capacity

C1_Witness ==
  /\ obj_size = 0
  /\ popped = <<>>
  /\ pq.user_capacity = MaxCap
  /\ Len(pushed) = pq.user_capacity
  /\ \E t \in Threads : pc[t] = "idle" /\ outcome[t] = "QueueFull" /\ rv[t] = 1

\* C2: with one producer thread and one consumer thread, the values the
\* pops have returned are, in order, the first references pushed.
C2_FifoSpsc ==
  client.name = "spsc" => IsPrefix(popped, pushed)

C2_Witness ==
  /\ client.name = "spsc"
  /\ Len(popped) >= 3
  /\ woken["t2"] = "sole"
  /\ pc["t2"] = "idle"
  /\ pq.head < pq.tail

\* C3: whenever the mutex is free, pq_len equals the number of successful
\* pushes minus the number of pops that returned an element, and is at
\* most user_capacity.
C3_Conservation ==
  mtx = NoThread =>
    /\ pq_len(pq) = Len(pushed) - NumElems(popped)
    /\ pq_len(pq) <= pq.user_capacity
\* the slots of the circular range [head, tail)
LiveSlots(q) ==
  {k \in 0 .. q.array_capacity - 1 :
     IF q.head <= q.tail THEN q.head <= k /\ k < q.tail
                         ELSE k >= q.head \/ k < q.tail}

\* C4: under every interleaving of producers and consumers, each pushed
\* reference is returned by at most one pop, every value a pop returns from
\* the slot at head is a reference that was pushed, and every pushed
\* reference is in a slot of [head, tail) or has been returned by a pop.
C4_ThreadSafe ==
  ~client.script =>
    /\ \A j, k \in 1 .. Len(popped) : j # k => popped[j] # popped[k]
    /\ \A j \in 1 .. Len(popped) : popped[j] \in Range(pushed)
    /\ \A j \in 1 .. Len(pushed) :
         \/ pushed[j] \in Range(popped)
         \/ \E k \in LiveSlots(pq) : pq.data[k] = pushed[j]

\* C5: a consumer that was the only one blocked in pq_pop(pq, 1) when a
\* push signalled it returns the reference of that push.
C5_WakeupValue ==
  \A t \in Threads :
    (woken[t] = "sole" /\ outcome[t] = "Popped") => rv[t] = sigval[t]

\* the addresses of the objects of the backing region
PoolAddrs ==
  {pq.buf + k * obj_size : k \in 0 .. pq.user_capacity - 1}

\* C6: a queue made by pq_init(N, obj_size > 0) has length N, and as long as
\* no caller has pushed, the pops return pairwise distinct non-null
\* addresses of objects of the backing region, at most N of them, and a
\* non-blocking pop finds the queue empty only after N pops.
C6_PoolMode ==
  (obj_size > 0 /\ Len(pushed) = pq.user_capacity) =>
    /\ popped = <<>> => (pq_len(pq) = pq.user_capacity /\ IsFull(pq))
    /\ Len(popped) <= pq.user_capacity
    /\ \A j \in 1 .. Len(popped) : popped[j] # NULL /\ popped[j] \in PoolAddrs
    /\ \A j, k \in 1 .. Len(popped) : j # k => popped[j] # popped[k]
    /\ \A t \in Threads :
         outcome[t] = "Empty" => Len(popped) = pq.user_capacity

C6_Witness ==
  /\ obj_size > 0
  /\ pq.user_capacity = MaxCap
  /\ Len(pushed) = pq.user_capacity
  /\ Len(popped) = pq.user_capacity
  /\ \E t \in Threads : pc[t] = "idle" /\ outcome[t] = "Empty"

\* C7: what a non-blocking pop that could not take the mutex hands to its
\* caller (return value, errno) differs from what a non-blocking pop that
\* found the queue empty hands to its caller.
C7_WouldBlockDistinct ==
  \A t, u \in Threads :
    (/\ pc[t] = "idle" /\ outcome[t] = "WouldBlock"
     /\ pc[u] = "idle" /\ outcome[u] = "Empty")
      => <<rv[t], errno[t]>> # <<rv[u], errno[u]>>
\* the critical section of pq_push run by thread t, against the ring
\* arithmetic written with mod
C8_PushStep(t) ==
  (pc[t] = "push_cs" /\ pc'[t] = "push_unlock") =>
    IF (pq.tail + 1) % pq.array_capacity = pq.head
      THEN /\ rv'[t] = 1
           /\ errno'[t] = ENOMEM
           /\ outcome'[t] = "QueueFull"
           /\ pq' = pq
           /\ condq' = condq
      ELSE /\ rv'[t] = 0
           /\ outcome'[t] = "PushOk"
           /\ pq'.data[pq.tail] = ptr[t]
           /\ pq'.tail = (pq.tail + 1) % pq.array_capacity
           /\ pq'.head = pq.head
           /\ pq'.waiting = pq.waiting
           /\ \A k \in 0 .. pq.array_capacity - 1 :
                k # pq.tail => pq'.data[k] = pq.data[k]

\* C8: a push that holds the mutex fails exactly when
\* (tail + 1) mod array_capacity = head; a failing push returns 1 with errno
\* ENOMEM, changes nothing of the queue and unblocks no waiter; a succeeding
\* push returns 0, writes its reference into the slot at tail, advances tail
\* by one modulo array_capacity and leaves head, the other slots and waiting
\* alone.
C8_PushFrame == [][\A t \in Threads : C8_PushStep(t)]_vars

\* a push failed while a consumer was blocked and waiting was set, and a
\* push succeeded with tail wrapping to 0
C8_Witness ==
  /\ \E t \in Threads : pc[t] = "push_unlock" /\ outcome[t] = "QueueFull"
  /\ pq.waiting = 1
  /\ condq # {}
  /\ pq.tail = 0
  /\ Len(pushed) >= 2

\* C9: with pushes and non-blocking pops only, pq_len is the number of live
\* elements and equals (tail - head) mod array_capacity however often the
\* indices have wrapped, and iterate() of the test bench never sees a push
\* or a pop fail.
C9_Wraparound ==
  client.wait = {} =>
    /\ pq_len(pq) = Len(pushed) - Len(popped)
    /\ pq_len(pq) = (pq.tail - pq.head) % pq.array_capacity
    /\ phase # "exit"

\* iterate() has run to its end with both indices wrapped at least twice
C9_Witness ==
  /\ client.name = "testbench"
  /\ pq.array_capacity = MaxCap + 1
  /\ phase = "iterate_push"
  /\ i = MaxIter
  /\ Len(popped) >= 2 * pq.array_capacity
  /\ pq_len(pq) = 0

\* C10: in the test bench on a queue made by pq_init(N, 0), fill() pushes
\* 1 .. N; while empty() runs, the pops have returned the first of these in
\* order; when empty() is done its last pop returned NULL, all N references
\* were returned, head = tail and every slot is NULL.
C10_FillDrain ==
  (client.script /\ obj_size = 0) =>
    /\ phase = "drain" =>
         /\ pushed = [k \in 1 .. pq.user_capacity |-> k]
         /\ IsPrefix(popped, pushed)
    /\ (phase = "iterate_push" /\ i = 1 /\ pc["t1"] = "idle") =>
         /\ popped = [k \in 1 .. pq.user_capacity |-> k]
         /\ outcome["t1"] = "Empty"
         /\ rv["t1"] = NULL
         /\ pq.head = pq.tail
         /\ \A k \in 0 .. pq.array_capacity - 1 : pq.data[k] = NULL

C10_Witness ==
  /\ client.name = "testbench_wait"
  /\ obj_size = 0
  /\ pq.user_capacity = MaxCap
  /\ phase = "iterate_push"
  /\ i = 1
  /\ pc["t1"] = "idle"
  /\ Len(popped) = MaxCap
\* C11: when an allocation of pq_init failed, pq_init returns NULL with errno
\* ENOMEM and no block it allocated is left unfreed.
C11_AllocFailureUnwound ==
  (ini.pc = "ret" /\ ini.failed # "none") =>
    /\ ini.ret = "NULL"
    /\ ini.err = ENOMEM
    /\ ini.heap = {}
\* threads() is over: both threads made their calls and returned, the pops
\* returned the k references pushed, in order, and the queue is empty
C12_Final ==
  /\ \A t \in Threads : pc[t] = "idle" /\ left[t] = 0
  /\ Len(pushed) = client.calls
  /\ popped = pushed
  /\ \A k \in 1 .. Len(pushed) : pushed[k] # NULL
  /\ pq.head = pq.tail

\* C12: on an empty queue, a producer making k <= user_capacity pushes and a
\* consumer making k blocking pops both terminate under fair scheduling, no
\* push fails, the consumer gets the k references in push order and the
\* queue ends empty.
C12_ThreadsTerminate ==
  (obj_size = 0 /\ client.calls <= pq.user_capacity) =>
    /\ <>[]C12_Final
    /\ [](\A t \in Threads : outcome[t] # "QueueFull")

\* the consumer blocked first and was woken for its last pop
C12_Witness ==
  /\ obj_size = 0
  /\ client.calls = MaxCap
  /\ pq.user_capacity = MaxCap
  /\ C12_Final
  /\ woken["t2"] = "sole"
\* the step of pq_pop that reads the slot at head and advances head
C13_Take(t) ==
  /\ pc[t] \in {"pop_cs", "pop_resumed"}
  /\ pc'[t] = "pop_unlock"
  /\ outcome'[t] = "Popped"

\* C13: whenever pq_pop reads the slot at head and advances head, after the
\* condition wait too, head # tail holds before the step, and the reference
\* it returns was pushed and not popped before.
C13_NoPopFromEmpty ==
  [][\A t \in Threads :
       C13_Take(t) =>
         /\ pq.head # pq.tail
         /\ rv'[t] \in Range(pushed)
         /\ rv'[t] \notin Range(popped)]_vars

\* C14: head and tail are indices of the slot array in every reachable
\* state, and array_capacity is the capacity asked for plus one.
C14_IndexRange ==
  /\ pq.head \in 0 .. pq.array_capacity - 1
  /\ pq.tail \in 0 .. pq.array_capacity - 1
  /\ pq.array_capacity = pq.user_capacity + 1
  /\ pq.user_capacity >= 1

\* head and tail have both wrapped to 0 on a queue of the largest capacity,
\* and head wrapped again after a pop
C14_Witness ==
  /\ pq.user_capacity = MaxCap
  /\ Len(popped) > pq.array_capacity
  /\ pq.head = 0
  /\ pq.tail < pq.array_capacity - 1
  /\ Len(pushed) > pq.array_capacity
\* the step of pq_push from the full test to the signal
C15_Push(t) == pc[t] = "push_cs" /\ pc'[t] = "push_unlock"

\* C15: a call of pq_push calls pthread_cond_signal once if it stored its
\* reference and waiting is 1, and not at all if the queue was full or
\* waiting is 0; the call is made with the mutex held, in the step that
\* stored the reference and advanced tail; at most one waiter is unblocked,
\* and no other step of any call signals or unblocks.
C15_SignalOnce ==
  [][\A t \in Threads :
       IF C15_Push(t)
         THEN /\ sent'[t] =
                   IF (pq.tail + 1) % pq.array_capacity # pq.head /\ pq.waiting = 1
                     THEN 1 ELSE 0
              /\ mtx = t /\ mtx' = t
              /\ sent'[t] = 1 =>
                   /\ pq'.data[pq.tail] = ptr[t]
                   /\ pq'.tail = (pq.tail + 1) % pq.array_capacity
                   /\ Cardinality(condq \ condq') <= 1
              /\ sent'[t] = 0 => condq' = condq
         ELSE /\ sent'[t] <= sent[t]
              /\ (\A u \in Threads : ~C15_Push(u)) => condq \subseteq condq']_vars

\* a push signalled and unblocked the waiting consumer, and has not released
\* the mutex yet
C15_Witness ==
  \E t, w \in Threads :
    /\ pc[t] = "push_unlock"
    /\ sent[t] = 1
    /\ mtx = t
    /\ pc[w] = "pop_signaled"
    /\ sigval[w] = ptr[t]
\* C16: a consumer blocked in pthread_cond_wait while waiting is 0 stays
\* blocked in every step: no push signals it.  The state of the witness, two
\* consumers having blocked together, is reachable.
C16_MissedWakeup ==
  [][\A t \in Threads :
       (pc[t] = "pop_wait" /\ pq.waiting = 0) =>
         /\ pc'[t] = "pop_wait"
         /\ t \in condq']_vars

\* consumer u, woken while t was blocked too, cleared waiting and returned;
\* a later push succeeded without a signal; the mutex is free, the queue
\* holds that reference, and t is still blocked
C16_Witness ==
  \E t, u, p \in Threads :
    /\ pc[t] = "pop_wait" /\ t \in condq
    /\ pq.waiting = 0
    /\ mtx = NoThread
    /\ pc[u] = "idle" /\ outcome[u] = "Popped" /\ woken[u] = "shared"
    /\ pc[p] = "idle" /\ outcome[p] = "PushOk"
    /\ pq.head # pq.tail
    /\ Len(pushed) = Len(popped) + 1
    /\ popped = SubSeq(pushed, 1, Len(popped))
    /\ pq.data[pq.head] = pushed[Len(pushed)]
\* references pushed and not yet returned by a pop
C17_Live == Len(pushed) - NumElems(popped)

\* C17: whenever the mutex is free, head = tail exactly when the queue holds
\* no live element, with pq_empty 1 and pq_len 0; (tail + 1) mod
\* array_capacity = head exactly when it holds user_capacity live elements,
\* with pq_len user_capacity; and pq_empty is 1 exactly when pq_len is 0.
C17_EmptyFull ==
  mtx = NoThread =>
    /\ (pq.head = pq.tail) <=> (C17_Live = 0)
    /\ (C17_Live = 0) => (pq_empty(pq) = 1 /\ pq_len(pq) = 0)
    /\ ((pq.tail + 1) % pq.array_capacity = pq.head) <=> (C17_Live = pq.user_capacity)
    /\ (C17_Live = pq.user_capacity) => (pq_len(pq) = pq.user_capacity)
    /\ (pq_empty(pq) = 1) <=> (pq_len(pq) = 0)
\* C18: whenever the mutex is free, waiting is 1 exactly when some consumer
\* is inside pthread_cond_wait (blocked, or signalled and not yet holding
\* the mutex again), however many consumers block.
C18_WaitingFlag ==
  mtx = NoThread =>
    ((pq.waiting = 1) <=> (\E t \in Threads : pc[t] \in {"pop_wait", "pop_signaled"}))
\* C19: when pq_init returns a queue, user_capacity is count and
\* array_capacity is count + 1, at least 2, as numbers (nothing of the
\* size_t count is lost in the 32-bit fields), and pq_len of that queue is
\* not negative.
C19_NoTruncation ==
  (ini.pc = "ret" /\ ini.failed = "none" /\ ini.ret = "pq") =>
    /\ ToSizeT(ini.user_capacity) = ini.count
    /\ ToSizeT(ini.array_capacity) = IncLimbs(ini.count)
    /\ LtLimbs(<<1, 0>>, ini.array_capacity)
    /\ ~IsNegative(pq_len32(ini.head, ini.tail, ini.array_capacity))
\* C20: in single-threaded use, pq_pop(pq, 0) returns NULL exactly when the
\* queue was empty (head = tail) at the call, whatever references were
\* pushed, NULL included.
C20_NullIffEmpty ==
  [][\A t \in Threads :
       (pc[t] = "pop_cs" /\ pc'[t] = "pop_unlock") =>
         ((rv'[t] = NULL) <=> (pq.head = pq.tail))]_vars
====
